---- MODULE Spec2Model ----
(***************************************************************************)
(* Better HR (src/main.py): the organizer core of MainWindow.  The model   *)
(* keeps the in-memory state of MainWindow (cv_list, current_index,        *)
(* undo_stack, base_folder, cand_email_map, config['email_map']), the      *)
(* files on disk (the CV folder with its Rejected/<reason> and hold        *)
(* subfolders, the session state file, the temp file of a save, the        *)
(* configuration file) and one action per handler.  The PDF viewer, the    *)
(* zoom level and the widgets are left out: no handler reads them back     *)
(* into the organizer state.                                               *)
(*                                                                         *)
(* Strings are sequences of tokens: one token per character, except that   *)
(* a file extension (".pdf", ".PDF", ".txt") is a single token.  A path is *)
(* a record [dir, name]: dir the sequence of directory components, name    *)
(* the file name (os.path.join(dir, name)).                                *)
(***************************************************************************)
EXTENDS Integers, Sequences, FiniteSets, TLC

\* ------------------------------------------------------------------ bounds
\* config['max_undo'] is drawn from 1..MaxUndoCfg
MaxUndoCfg == 2
\* events of the environment: a change made to the CV folder from outside
\* the application, or the process dying (crash, kill, exit) and being
\* started again
MaxFaults == 1

\* ------------------------------------------------------------------ strings
ExtTokens == {".pdf", ".PDF", ".txt"}

\* code point order of the tokens (for sorted()); an extension token sorts
\* as its first characters do
Ord(t) ==
    CASE t = " "    -> 320
      [] t = "!"    -> 330
      [] t = ".PDF" -> 461
      [] t = ".pdf" -> 462
      [] t = ".txt" -> 463
      [] t = "0"    -> 480
      [] t = "1"    -> 490
      [] t = "2"    -> 500
      [] t = "3"    -> 510
      [] t = "4"    -> 520
      [] t = "5"    -> 530
      [] t = "6"    -> 540
      [] t = "7"    -> 550
      [] t = "8"    -> 560
      [] t = "9"    -> 570
      [] t = "J"    -> 740
      [] t = "K"    -> 750
      [] t = "_"    -> 950
      [] t = "j"    -> 1060
      [] t = "k"    -> 1070
      [] OTHER      -> 2000

\* Python's str < str
RECURSIVE StrLess(_, _)
StrLess(a, b) ==
    IF a = <<>> THEN b # <<>>
    ELSE IF b = <<>> THEN FALSE
    ELSE IF Ord(Head(a)) # Ord(Head(b)) THEN Ord(Head(a)) < Ord(Head(b))
    ELSE StrLess(Tail(a), Tail(b))

Digits == <<"0", "1", "2", "3", "4", "5", "6", "7", "8", "9">>

\* f"{counter}"
RECURSIVE IntToStr(_)
IntToStr(n) ==
    IF n < 10 THEN <<Digits[n + 1]>>
    ELSE IntToStr(n \div 10) \o <<Digits[(n % 10) + 1]>>

\* os.path.splitext(name): <<base, ext>>
splitext(name) ==
    IF Len(name) > 1 /\ name[Len(name)] \in ExtTokens
    THEN <<SubSeq(name, 1, Len(name) - 1), <<name[Len(name)]>>>>
    ELSE <<name, <<>>>>

\* str.lower() on one token
LowerTok(t) ==
    CASE t = "J"    -> "j"
      [] t = "K"    -> "k"
      [] t = ".PDF" -> ".pdf"
      [] OTHER      -> t

lower(s) == [i \in 1..Len(s) |-> LowerTok(s[i])]

\* \w of the regular expressions: letters, digits, underscore
IsWord(t) == t \in {"J", "K", "j", "k", "_"} \/ t \in {Digits[i] : i \in 1..10}
\* \s of the regular expressions
IsSpace(t) == t = " "

\* re.sub(r'[^\w\s]', '', s): only word characters and whitespace are kept
RECURSIVE StripPunct(_)
StripPunct(s) ==
    IF s = <<>> THEN <<>>
    ELSE (IF IsWord(Head(s)) \/ IsSpace(Head(s)) THEN <<Head(s)>> ELSE <<>>)
         \o StripPunct(Tail(s))

\* re.sub(r'\s+', ' ', s): every run of whitespace becomes one space
RECURSIVE CollapseSpaces(_)
CollapseSpaces(s) ==
    IF s = <<>> THEN <<>>
    ELSE IF IsSpace(Head(s))
         THEN IF Len(s) > 1 /\ IsSpace(s[2])
              THEN CollapseSpaces(Tail(s))
              ELSE <<" ">> \o CollapseSpaces(Tail(s))
         ELSE <<Head(s)>> \o CollapseSpaces(Tail(s))

\* str.strip()
RECURSIVE strip(_)
strip(s) ==
    IF s = <<>> THEN <<>>
    ELSE IF IsSpace(Head(s)) THEN strip(Tail(s))
    ELSE IF IsSpace(s[Len(s)]) THEN strip(SubSeq(s, 1, Len(s) - 1))
    ELSE s

\* MainWindow.normalize_name
normalize_name(name) == strip(CollapseSpaces(lower(StripPunct(name))))

\* ------------------------------------------------------------------ configuration
\* config['reason_map']: the first two entries of DEFAULT_CONFIG
reason_map ==
    [k \in {"1", "2"} |->
        CASE k = "1" -> "UnsatisfactoryEducation"
          [] k = "2" -> "UnsatisfactoryExperience"]

\* DEFAULT_CONFIG['hold_folder']
hold_folder == "HoldForReview"

\* the keys move_current is called with: the keys of reason_map and one
\* key that is not in it
ReasonKeys == DOMAIN reason_map \cup {"9"}

\* ------------------------------------------------------------------ files
\* the folder the user picks in the QFileDialog of open_folder
CvFolder == <<"cv">>

\* os.path.join(self.base_folder, 'Rejected', folder)
RejectedDir(base, folder) == base \o <<"Rejected", folder>>

\* os.path.join(self.base_folder, self.config['hold_folder'])
HoldDir(base) == base \o <<hold_folder>>

Path(dir, name) == [dir |-> dir, name |-> name]

File(dir, name, data) == [dir |-> dir, name |-> name, data |-> data]

NameJ == <<"J", ".pdf">>
Namej == <<"j", ".pdf">>
NameTxt == <<"k", ".txt">>

\* the PDFs and the other file of the CV folder
CvFiles ==
    { File(CvFolder, NameJ, "cvJ"), File(CvFolder, Namej, "cvj"),
      File(CvFolder, NameTxt, "txt") }

\* files left under Rejected/ by an earlier session
EduDir == RejectedDir(CvFolder, reason_map["1"])

OldFiles1 == { File(EduDir, NameJ, "old1") }

\* what the disk may hold when the application is first started
InitDisks == { CvFiles, CvFiles \cup OldFiles1 }

\* os.path.exists(path) on the files dk
exists(dk, path) == \E f \in dk : f.dir = path.dir /\ f.name = path.name

FileAt(dk, path) == CHOOSE f \in dk : f.dir = path.dir /\ f.name = path.name

\* os.listdir(dir); empty when dir does not exist
listdir(dk, dir) == { f.name : f \in { g \in dk : g.dir = dir } }

\* os.remove(path)
remove_by_name(dk, path) == { f \in dk : f.name # path.name }

remove(dk, path) == { f \in dk : ~(f.dir = path.dir /\ f.name = path.name) }

\* shutil.move(src, dest) of a file: dest takes the content of src, and a
\* file that was at dest is replaced (os.rename)
shutil_copy(dk, src, dest) ==
    remove(dk, dest) \cup { File(dest.dir, dest.name, FileAt(dk, src).data) }

shutil_move(dk, src, dest) ==
    remove(remove(dk, src), dest)
        \cup { File(dest.dir, dest.name, FileAt(dk, src).data) }

\* glob.glob(os.path.join(d, '*.pdf'))
glob_all(dk, d) == { Path(d, n) : n \in listdir(dk, d) }

glob_pdf(dk, d) ==
    { Path(d, n) : n \in { m \in listdir(dk, d) : Len(m) > 1 /\ m[Len(m)] = ".pdf" } }

\* sorted() of a set of paths of one directory
RECURSIVE sorted(_)
sorted(S) ==
    IF S = {} THEN <<>>
    ELSE LET least == CHOOSE p \in S :
                        \A q \in S \ {p} : StrLess(p.dir \o p.name, q.dir \o q.name)
         IN  <<least>> \o sorted(S \ {least})

\* the while loop of MainWindow.unique_dest
RECURSIVE unique_loop(_, _, _, _, _, _)
unique_loop(dk, directory, base, ext, candidate, counter) ==
    IF exists(dk, Path(directory, candidate))
    THEN unique_loop(dk, directory, base, ext,
                     base \o <<"_">> \o IntToStr(counter) \o ext, counter + 1)
    ELSE candidate

\* MainWindow.unique_dest
unique_dest_same(dk, directory, name) == name

unique_dest(dk, directory, name) ==
    LET se == splitext(name)
    IN  unique_loop(dk, directory, se[1], se[2], name, 1)

\* ------------------------------------------------------------------ state
VARIABLES
    \* MainWindow, in memory
    base_folder,      \* self.base_folder; <<>> is ''
    cv_list,          \* self.cv_list: sequence of paths
    current_index,    \* self.current_index, 0-based, -1 when there is none
    undo_stack,       \* self.undo_stack: sequence of operations
    cand_email_map,   \* self.cand_email_map: name key -> email (session)
    email_map,        \* self.config['email_map']: name key -> email
    max_undo,         \* self.config['max_undo']
    \* on disk
    disk,             \* the files of the CV folder and its subfolders
    state_file,       \* STATE_FILE
    temp_file,        \* self.temp
    config_file,      \* the email_map stored in CONFIG_FILE
    \* control
    save_pc,          \* where save_session_state stands
    out,              \* what the last handler showed or produced
    \* history
    faults,           \* events of the environment so far
    orig_queue,       \* the queue the last open_folder produced
    clean             \* since that open_folder: only moves, holds and undos
                      \* that succeeded, no eviction, no event of the
                      \* environment

mem == <<base_folder, cv_list, current_index, undo_stack, cand_email_map>>
cfg == <<email_map, max_undo, config_file>>
files == <<disk, state_file, temp_file, save_pc>>
hist == <<faults, orig_queue, clean>>
vars == <<mem, cfg, files, out, hist>>

Absent == [kind |-> "absent"]
\* a file whose content is not (yet) a complete JSON document
Partial == [kind |-> "partial"]
\* a file holding the complete JSON document v
Json(v) == [kind |-> "json", value |-> v]

Out(msg) == [msg |-> msg]

EmptyMap == << >>

\* dict.get(key) or ''
Get(m, key) == IF key \in DOMAIN m THEN m[key] ELSE <<>>

\* m[key] = value
PutIfAbsent(m, key, value) ==
    [k \in DOMAIN m \cup {key} |-> IF k \in DOMAIN m THEN m[k] ELSE value]

Put(m, key, value) ==
    [k \in DOMAIN m \cup {key} |-> IF k = key THEN value ELSE m[k]]

Max(a, b) == IF a >= b THEN a ELSE b

\* the state dict of save_session_state (viewer_zoom left out)
StateDictMissingUndo(bf, cl, ci, us, cem) ==
    [base_folder |-> bf, cv_list |-> cl, current_index |-> ci,
     cand_email_map |-> cem]

StateDict(bf, cl, ci, us, cem) ==
    [base_folder |-> bf, cv_list |-> cl, current_index |-> ci,
     undo_stack |-> us, cand_email_map |-> cem]

\* JSON values: what json.dump writes for a str, an int, a list, a dict
JString(s) == [t |-> "string", v |-> s]
JNumber(n) == [t |-> "number", v |-> n]
JArray(a) == [t |-> "array", v |-> a]
JObject(m) == [t |-> "object", v |-> m]

\* json.dump of an operation dict: 'position' is an int, the rest are str
json_dump_operation(operation) ==
    JObject([k \in DOMAIN operation |->
                IF k = "position" THEN JNumber(operation[k])
                ELSE JString(operation[k])])

\* json.dump(state, f)
json_dump(state) ==
    JObject([k \in DOMAIN state |->
        CASE k = "current_index" -> JNumber(state[k])
          [] k = "cv_list" ->
                JArray([i \in DOMAIN state[k] |-> JString(state[k][i])])
          [] k = "undo_stack" ->
                JArray([i \in DOMAIN state[k] |-> json_dump_operation(state[k][i])])
          [] k = "cand_email_map" ->
                JObject([n \in DOMAIN state[k] |-> JString(state[k][n])])
          [] OTHER -> JString(state[k])])

\* json.load(f): str, int, list and dict again
RECURSIVE json_load(_)
json_load(j) ==
    CASE j.t = "array" -> [i \in DOMAIN j.v |-> json_load(j.v[i])]
      [] j.t = "object" -> [k \in DOMAIN j.v |-> json_load(j.v[k])]
      [] OTHER -> j.v

\* state.get(key, default)
Field(state, key, default) ==
    IF key \in DOMAIN state THEN state[key] ELSE default

\* load_session_state: the index validation
ValidateIndex(ci, cl) ==
    IF ci >= Len(cl)
    THEN (IF cl # <<>> THEN Max(0, Len(cl) - 1) ELSE -1)
    ELSE ci

\* load_session_state on the content of the state file, starting from the
\* memory <<bf, cl, ci, us, cem>> of __init__: the memory afterwards
load_session_state(file, bf, cl, ci, us, cem) ==
    IF file.kind # "json" \/ file.value.t # "object"
    THEN <<bf, cl, ci, us, cem>>
    ELSE LET state == json_load(file.value)
             list == Field(state, "cv_list", <<>>)
         IN  << Field(state, "base_folder", <<>>),
                list,
                ValidateIndex(Field(state, "current_index", -1), list),
                Field(state, "undo_stack", <<>>),
                Field(state, "cand_email_map", EmptyMap) >>

\* save_session_state, called with the memory <<bf, cl, ci, us, cem>>, up
\* to the temp file being written; SaveRemove and SaveMove do the rest
save_session_state(bf, cl, ci, us, cem) ==
    IF bf = <<>>
    THEN UNCHANGED <<state_file, temp_file, save_pc>>
    ELSE /\ temp_file' = Json(json_dump(StateDict(bf, cl, ci, us, cem)))
         /\ save_pc' = "written"
         /\ UNCHANGED state_file

\* the state file the application may find when it is first started: none,
\* one that is not JSON, a JSON document that is not a dict ("[]"), and a
\* dict that is not a whole snapshot ({"base_folder": "cv"})
InitStateFiles ==
    { Absent, Partial, Json(JArray(<<>>)),
      Json(JObject([base_folder |-> JString(CvFolder)])) }

\* __init__: the memory after load_session_state on the state file
restore(file) == load_session_state(file, <<>>, <<>>, -1, <<>>, EmptyMap)

Init ==
    /\ state_file \in InitStateFiles
    /\ base_folder = restore(state_file)[1]
    /\ cv_list = restore(state_file)[2]
    /\ current_index = restore(state_file)[3]
    /\ undo_stack = restore(state_file)[4]
    /\ cand_email_map = restore(state_file)[5]
    /\ email_map = EmptyMap
    /\ max_undo \in 1..MaxUndoCfg
    /\ disk \in InitDisks
    /\ temp_file = Absent
    /\ config_file = EmptyMap
    /\ save_pc = "idle"
    /\ out = (IF restore(state_file)[1] # <<>> THEN Out("SessionRestored")
              ELSE Out("Ready"))
    /\ faults = 0
    /\ orig_queue = <<>>
    /\ clean = FALSE

\* ------------------------------------------------------------------ handlers
\* history kept while clean, dropped otherwise
Track(c, oq) ==
    /\ clean' = c
    /\ orig_queue' = (IF c THEN oq ELSE <<>>)

\* MainWindow.open_folder with the folder d picked in the dialog (a
\* cancelled dialog returns at once and changes nothing)
OpenFolder ==
    /\ save_pc = "idle"
    /\ LET d == CvFolder
           list == sorted(glob_pdf(disk, d))
           index == IF list # <<>> THEN 0 ELSE -1
       IN  /\ base_folder' = d
           /\ cv_list' = list
           /\ current_index' = index
           /\ undo_stack' = <<>>
           /\ out' = (IF list = <<>> THEN Out("NoPDFs") ELSE Out("Opened"))
           /\ save_session_state(d, list, index, <<>>, cand_email_map)
           /\ Track(TRUE, list)
    /\ UNCHANGED <<cand_email_map, cfg, disk, faults>>

\* the guard of move_current and hold: there is a current item
HasCurrent ==
    ~(cv_list = <<>> \/ current_index < 0 \/ current_index >= Len(cv_list))

\* self.undo_stack.append(operation) and the max undo limit
pushNoLimit(stack, operation, limit) == Append(stack, operation)

push(stack, operation, limit) ==
    LET appended == Append(stack, operation)
    IN  IF Len(appended) > limit THEN Tail(appended) ELSE appended

\* list.pop(i), i 0-based
pop_last(list, i) == SubSeq(list, 1, Len(list) - 1)

pop_at_none(list, i) == list

pop_at(list, i) == SubSeq(list, 1, i) \o SubSeq(list, i + 2, Len(list))

\* list.insert(i, x), i 0-based
insert_at_end(list, i, x) == Append(list, x)

insert_at(list, i, x) == SubSeq(list, 1, i) \o <<x>> \o SubSeq(list, i + 1, Len(list))

\* "Adjust current index" of move_current and hold, list already popped
adjust_index_unclamped(list, index) == index

adjust_index(list, index) ==
    IF list = <<>> THEN -1
    ELSE IF index >= Len(list) THEN Len(list) - 1
    ELSE index

\* the operation dict of move_current (kind "reject") and of hold ("hold")
make_operation_reject(kind, src, dest, reason_key, name, position) ==
    [src |-> src, dest |-> dest, type |-> "reject", reason |-> reason_key,
     filename |-> name, position |-> position]

make_operation_position_after(kind, src, dest, reason_key, name, position) ==
    IF kind = "reject"
    THEN [src |-> src, dest |-> dest, type |-> "reject", reason |-> reason_key,
          filename |-> name, position |-> position + 1]
    ELSE [src |-> src, dest |-> dest, type |-> "hold",
          filename |-> name, position |-> position + 1]

make_operation(kind, src, dest, reason_key, name, position) ==
    IF kind = "reject"
    THEN [src |-> src, dest |-> dest, type |-> "reject", reason |-> reason_key,
          filename |-> name, position |-> position]
    ELSE [src |-> src, dest |-> dest, type |-> "hold",
          filename |-> name, position |-> position]

\* shutil.move raised inside move_current or hold: the except branch
move_failed_drops_item ==
    /\ out' = Out("MoveFailed")
    /\ cv_list' = pop_at(cv_list, current_index)
    /\ current_index' = adjust_index(pop_at(cv_list, current_index), current_index)
    /\ UNCHANGED <<base_folder, undo_stack, cand_email_map, cfg, files, hist>>

move_failed ==
    /\ out' = Out("MoveFailed")
    /\ UNCHANGED <<mem, cfg, files, hist>>

\* the try block of move_current and of hold: the current file goes to
\* dest_dir under a unique name and the operation is recorded; moved is
\* whether shutil.move succeeded (it raises otherwise)
MoveAndRecord(kind, dest_dir, reason_key, moved) ==
    LET src == cv_list[current_index + 1]
        name == src.name
        unique_name == unique_dest(disk, dest_dir, name)
        dest == Path(dest_dir, unique_name)
        operation == make_operation(kind, src, dest, reason_key, name, current_index)
        stack == push(undo_stack, operation, max_undo)
        list == pop_at(cv_list, current_index)
        index == adjust_index(list, current_index)
        kept == clean /\ Len(undo_stack) + 1 <= max_undo
    IN  IF moved
        THEN /\ disk' = shutil_move(disk, src, dest)
             /\ undo_stack' = stack
             /\ cv_list' = list
             /\ current_index' = index
             /\ out' = [msg |-> "Moved", kind |-> kind,
                         evicted |-> Len(undo_stack) + 1 > max_undo]
             /\ save_session_state(base_folder, list, index, stack, cand_email_map)
             /\ Track(kept, orig_queue)
             /\ UNCHANGED <<base_folder, cand_email_map, cfg, faults>>
        ELSE move_failed

\* the early returns of move_current: the message shown ("" when it
\* returns without one), or "ok" when the move goes ahead
move_current_silent(reason_key) ==
    IF ~HasCurrent \/ reason_key \notin DOMAIN reason_map THEN ""
    ELSE IF ~exists(disk, cv_list[current_index + 1]) THEN "FileMissing"
    ELSE "ok"

move_current_check(reason_key) ==
    IF ~HasCurrent THEN ""
    ELSE IF reason_key \notin DOMAIN reason_map THEN "InvalidReason"
    ELSE IF ~exists(disk, cv_list[current_index + 1]) THEN "FileMissing"
    ELSE "ok"

\* MainWindow.move_current(reason_key)
MoveCurrentWith(reason_key, moved) ==
    /\ save_pc = "idle"
    /\ IF move_current_check(reason_key) # "ok"
       THEN /\ out' = Out(move_current_check(reason_key))
            /\ UNCHANGED <<mem, cfg, files, hist>>
       ELSE MoveAndRecord("reject",
                          RejectedDir(base_folder, reason_map[reason_key]),
                          reason_key, moved)

MoveCurrent == \E reason_key \in ReasonKeys, moved \in BOOLEAN :
                   MoveCurrentWith(reason_key, moved)

\* the early returns of hold
hold_check ==
    IF ~HasCurrent THEN ""
    ELSE IF ~exists(disk, cv_list[current_index + 1]) THEN "FileMissing"
    ELSE "ok"

\* MainWindow.hold
HoldWith(moved) ==
    /\ save_pc = "idle"
    /\ IF hold_check # "ok"
       THEN /\ out' = Out(hold_check)
            /\ UNCHANGED <<mem, cfg, files, hist>>
       ELSE MoveAndRecord("hold", HoldDir(base_folder), "", moved)

Hold == \E moved \in BOOLEAN : HoldWith(moved)

\* the ledger undo leaves when it returns early: the operation was popped
\* and is not pushed again
ledger_repushed(stack, operation) == Append(stack, operation)

ledger_after_failure(stack, operation) == stack

\* the early returns of undo once the operation is popped: the message
\* shown, or "ok" when the file is moved back; overwrite is the answer to
\* the "File Conflict" question
undo_check_overwrites(dk, operation, overwrite) ==
    IF ~exists(dk, operation.dest) THEN "DestMissing" ELSE "ok"

undo_check(dk, operation, overwrite) ==
    IF ~exists(dk, operation.dest) THEN "DestMissing"
    ELSE IF exists(dk, operation.src) /\ ~overwrite THEN "Declined"
    ELSE "ok"

\* undo with nothing in the ledger: the message, and nothing else
nothing_to_undo_saves ==
    /\ out' = Out("NothingToUndo")
    /\ save_session_state(base_folder, cv_list, current_index, undo_stack,
                          cand_email_map)
    /\ UNCHANGED <<mem, cfg, disk, hist>>

nothing_to_undo ==
    /\ out' = Out("NothingToUndo")
    /\ UNCHANGED <<mem, cfg, files, hist>>

\* MainWindow.undo; moved is whether shutil.move succeeded
UndoWith(overwrite, moved) ==
    /\ save_pc = "idle"
    /\ IF undo_stack = <<>>
       THEN nothing_to_undo
       ELSE
         LET operation == undo_stack[Len(undo_stack)]
             stack == SubSeq(undo_stack, 1, Len(undo_stack) - 1)
             src == operation.src
             dest == operation.dest
             check == undo_check(disk, operation, overwrite)
             cleared == remove(disk, src)
             insert_index == IF operation.position > Len(cv_list)
                             THEN Len(cv_list)
                             ELSE operation.position
             list == insert_at(cv_list, insert_index, src)
             Lost(msg, dk) ==
                 /\ undo_stack' = ledger_after_failure(stack, operation)
                 /\ disk' = dk
                 /\ out' = Out(msg)
                 /\ Track(FALSE, <<>>)
                 /\ UNCHANGED <<base_folder, cv_list, current_index, cand_email_map,
                                cfg, state_file, temp_file, save_pc, faults>>
         IN  IF check # "ok" THEN Lost(check, disk)
             ELSE IF ~moved THEN Lost("UndoFailed", cleared)
             ELSE /\ disk' = shutil_move(cleared, dest, src)
                  /\ undo_stack' = stack
                  /\ cv_list' = list
                  /\ current_index' = insert_index
                  /\ out' = [msg |-> "Undone",
                              streak |-> IF out.msg = "Undone"
                                         THEN out.streak + 1 ELSE 1]
                  /\ save_session_state(base_folder, list, insert_index,
                                        stack, cand_email_map)
                  /\ Track(clean, orig_queue)
                  /\ UNCHANGED <<base_folder, cand_email_map, cfg, faults>>

Undo == \E overwrite \in BOOLEAN, moved \in BOOLEAN : UndoWith(overwrite, moved)

\* ------------------------------------------------------------------ emails
\* the CSV files the user may import: the header fields and the rows
CsvMany ==
    [fieldnames |-> {"name", "email", "phone"},
     rows |-> << [name |-> <<"J", "!">>, email |-> <<"y">>],
                 [name |-> <<" ", "j">>, email |-> <<" ", "x", " ">>],
                 [name |-> <<"!">>, email |-> <<"z">>],
                 [name |-> <<"k">>, email |-> <<" ">>] >>]

CsvNoEmail ==
    [fieldnames |-> {"name", "phone"},
     rows |-> << [name |-> <<"J">>, email |-> <<>>] >>]

CsvNoName ==
    [fieldnames |-> {"email", "phone"},
     rows |-> << [name |-> <<>>, email |-> <<"y">>] >>]

CsvFiles == {CsvMany, CsvNoEmail, CsvNoName}

\* the header test of import_emails on reader.fieldnames
has_headers_name_only(fieldnames) == "name" \in fieldnames

has_headers(fieldnames) == ~("name" \notin fieldnames \/ "email" \notin fieldnames)

\* the loop over the rows of import_emails: <<cand_email_map,
\* config['email_map'], new_emails>> after the rows
RECURSIVE import_rows(_, _, _, _)
import_rows(rows, cem, em, new_emails) ==
    IF rows = <<>> THEN <<cem, em, new_emails>>
    ELSE LET row == Head(rows)
             name_key == normalize_name(row.name)
             email == strip(row.email)
         IN  IF name_key # <<>> /\ email # <<>>
             THEN import_rows(Tail(rows), Put(cem, name_key, email),
                              Put(em, name_key, email), new_emails + 1)
             ELSE import_rows(Tail(rows), cem, em, new_emails)

\* MainWindow.import_emails with the file csv picked in the dialog
ImportEmailsWith(csv) ==
    /\ save_pc = "idle"
    /\   IF base_folder = <<>>
         THEN out' = Out("OpenFirst") /\ UNCHANGED <<mem, cfg, files, hist>>
         ELSE IF ~has_headers(csv.fieldnames)
         THEN out' = Out("InvalidFormat") /\ UNCHANGED <<mem, cfg, files, hist>>
         ELSE LET done == import_rows(csv.rows, cand_email_map, email_map, 0)
              IN  /\ cand_email_map' = done[1]
                  /\ email_map' = done[2]
                  /\ config_file' = done[2]
                  /\ out' = [msg |-> "ImportComplete", count |-> done[3]]
                  /\ save_session_state(base_folder, cv_list, current_index,
                                        undo_stack, done[1])
                  /\ UNCHANGED <<base_folder, cv_list, current_index, undo_stack,
                                 max_undo, disk, hist>>

ImportEmails == \E csv \in CsvFiles : ImportEmailsWith(csv)

\* the email export_csv finds for the file name stem base_name
lookup_email_session_only(cem, em, base_name) == Get(cem, base_name)

lookup_email(cem, em, base_name) ==
    IF Get(cem, base_name) # <<>> THEN Get(cem, base_name) ELSE Get(em, base_name)

\* the folders export_csv scans: <<reason key, directory>>
export_dirs_and_hold(bf) ==
    { <<key, RejectedDir(bf, reason_map[key])>> : key \in DOMAIN reason_map }
        \cup { <<"1", HoldDir(bf)>> }

export_dirs(bf) ==
    { <<key, RejectedDir(bf, reason_map[key])>> : key \in DOMAIN reason_map }

\* the rows export_csv collects
export_rows(bf, dk, cem, em) ==
    UNION { { [Filename |-> fname, ReasonKey |-> kd[1], ReasonText |-> reason_map[kd[1]],
               Email |-> lookup_email(cem, em, splitext(fname)[1])] :
              fname \in { f \in listdir(dk, kd[2]) :
                            lower(f)[Len(f)] = ".pdf" } } :
            kd \in export_dirs(bf) }

\* MainWindow.export_csv (the user saves the file when asked where); fresh
\* records that open_folder was the handler before it
ExportCsv ==
    /\ save_pc = "idle"
    /\ LET rows == export_rows(base_folder, disk, cand_email_map, email_map)
           fresh == out.msg \in {"Opened", "NoPDFs"}
       IN  out' = IF base_folder = <<>> THEN Out("OpenFirst")
                  ELSE IF rows = {}
                  THEN [msg |-> "NoRejected", rows |-> {}, fresh |-> fresh]
                  ELSE [msg |-> "Exported", rows |-> rows, fresh |-> fresh]
    /\ UNCHANGED <<mem, cfg, files, hist>>

\* ------------------------------------------------------------------ persistence
\* the QTimer (every 30 s) and closeEvent call save_session_state
TimerSave ==
    /\ save_pc = "idle"
    /\ base_folder # <<>>
    /\ save_session_state(base_folder, cv_list, current_index, undo_stack,
                          cand_email_map)
    /\ UNCHANGED <<mem, cfg, disk, out, hist>>

\* save_session_state: os.remove(self.state_file) when it exists
SaveRemove ==
    /\ save_pc = "written"
    /\ state_file # Absent
    /\ state_file' = Absent
    /\ save_pc' = "removed"
    /\ UNCHANGED <<mem, cfg, disk, temp_file, out, hist>>

\* save_session_state: shutil.move(self.temp, self.state_file) completes
SaveMove ==
    /\ \/ save_pc = "removed"
       \/ save_pc = "written" /\ state_file = Absent
    /\ state_file' = temp_file
    /\ temp_file' = Absent
    /\ save_pc' = "idle"
    /\ UNCHANGED <<mem, cfg, disk, out, hist>>

\* the process dies (a crash, a kill, or an exit) at any point and the
\* application is started again: __init__ with load_config and
\* load_session_state.  The temp file of the dead process is not read.
\* When the process dies inside shutil.move(self.temp, self.state_file)
\* and the temp directory is on another file system, the move is a copy
\* and the state file may be left incomplete.
Restart ==
    /\ faults < MaxFaults
    /\ faults' = faults + 1
    /\ \/ state_file' = state_file
       \/ /\ save_pc = "removed" \/ (save_pc = "written" /\ state_file = Absent)
          /\ state_file' = Partial
    /\ LET loaded == restore(state_file')
       IN  /\ base_folder' = loaded[1]
           /\ cv_list' = loaded[2]
           /\ current_index' = loaded[3]
           /\ undo_stack' = loaded[4]
           /\ cand_email_map' = loaded[5]
           /\ out' = (IF loaded[1] # <<>> THEN Out("SessionRestored")
                      ELSE Out("Ready"))
    /\ email_map' = config_file
    /\ temp_file' = Absent
    /\ save_pc' = "idle"
    /\ Track(FALSE, <<>>)
    /\ UNCHANGED <<max_undo, config_file, disk>>

\* ------------------------------------------------------------------ environment
\* a CV (J.pdf or j.pdf) is deleted from outside the application,
\* wherever it is
OutsideDelete ==
    /\ save_pc = "idle"
    /\ faults < MaxFaults
    /\ \E f \in disk :
         /\ f.data \in {"cvJ", "cvj"}
         /\ disk' = disk \ {f}
    /\ faults' = faults + 1
    /\ Track(FALSE, <<>>)
    /\ UNCHANGED <<mem, cfg, state_file, temp_file, save_pc, out>>

\* a file J.pdf appears in the CV folder from outside the application
OutsideCreate ==
    /\ save_pc = "idle"
    /\ faults < MaxFaults
    /\ ~exists(disk, Path(CvFolder, NameJ))
    /\ disk' = disk \cup {File(CvFolder, NameJ, "new")}
    /\ faults' = faults + 1
    /\ Track(FALSE, <<>>)
    /\ UNCHANGED <<mem, cfg, state_file, temp_file, save_pc, out>>

Next ==
    \/ OpenFolder
    \/ MoveCurrent
    \/ Hold
    \/ Undo
    \/ ImportEmails
    \/ ExportCsv
    \/ TimerSave
    \/ SaveRemove
    \/ SaveMove
    \/ Restart
    \/ OutsideDelete
    \/ OutsideCreate

Spec == Init /\ [][Next]_vars

\* ================================================================== claims
Last(seq) == seq[Len(seq)]

Min(a, b) == IF a <= b THEN a ELSE b

NoDuplicates(seq) == \A i, j \in 1..Len(seq) : seq[i] = seq[j] => i = j

\* a move_current or hold step that moved the file
MovedStep == out'.msg = "Moved" /\ disk' # disk /\ faults' = faults

\* ------------------------------------------------------------------ C1
\* C1: starting from the queue produced by open_folder, after n successful
\* move_current/hold operations with n <= max_undo and no outside change,
\* n calls of undo() restore cv_list to its original content and order and
\* leave undo_stack empty.  While clean, every operation not yet undone is
\* in the ledger with its file at dest and its source path free (so each
\* undo succeeds), and once the ledger is empty the queue is the original.
C1_UndoRestoresQueue ==
    clean =>
        /\ Len(undo_stack) + Len(cv_list) = Len(orig_queue)
        /\ \A i \in 1..Len(undo_stack) :
               /\ exists(disk, undo_stack[i].dest)
               /\ ~exists(disk, undo_stack[i].src)
        /\ undo_stack = <<>> =>
               /\ cv_list = orig_queue
               /\ current_index = (IF orig_queue = <<>> THEN -1 ELSE 0)

\* two operations were undone one after the other and the queue of two
\* files is back
C1_Witness ==
    /\ clean
    /\ out.msg = "Undone" /\ out.streak = 2
    /\ undo_stack = <<>>
    /\ Len(cv_list) = 2

C3_SnapshotNeverLost ==
    [][ state_file.kind = "json" =>
            /\ state_file'.kind = "json"
            /\ state_file' \in {state_file, temp_file} ]_vars

\* ------------------------------------------------------------------ C4
\* C4: in every state reached through open_folder, move_current,
\* hold_current and undo, the snapshot save_session_state writes, loaded by
\* a fresh process, gives the same cv_list, current_index and undo_stack;
\* and after a restart that found a snapshot with these three fields, the
\* memory is what the state file holds.
C4_SaveLoadRoundTrip ==
    /\ base_folder # <<>> =>
         LET written == Json(json_dump(StateDict(base_folder, cv_list,
                                                 current_index, undo_stack,
                                                 cand_email_map)))
             loaded == load_session_state(written, <<>>, <<>>, -1, <<>>, EmptyMap)
         IN  /\ loaded[2] = cv_list
             /\ loaded[3] = current_index
             /\ loaded[4] = undo_stack
    /\ (out.msg = "SessionRestored" /\ save_pc = "idle") =>
         /\ state_file.kind = "json"
         /\ {"cv_list", "current_index", "undo_stack"}
               \subseteq DOMAIN json_load(state_file.value) =>
                 /\ json_load(state_file.value).cv_list = cv_list
                 /\ json_load(state_file.value).current_index = current_index
                 /\ json_load(state_file.value).undo_stack = undo_stack

\* a restart restored a queue and a ledger that are not empty
C4_Witness ==
    /\ out.msg = "SessionRestored"
    /\ save_pc = "idle"
    /\ undo_stack # <<>>
    /\ cv_list # <<>>

\* ------------------------------------------------------------------ C5
\* C5: cv_list holds no path twice, and current_index is -1 exactly when
\* cv_list is empty and a valid index otherwise.
C5_QueueInvariant ==
    /\ NoDuplicates(cv_list)
    /\ (current_index = -1) <=> (cv_list = <<>>)
    /\ cv_list # <<>> => (0 <= current_index /\ current_index < Len(cv_list))

\* an undo that failed after the pop, with a queue that is not empty
C5_Witness ==
    /\ out.msg \in {"DestMissing", "Declined", "UndoFailed"}
    /\ cv_list # <<>>
    /\ current_index = 0
\* ------------------------------------------------------------------ C6
\* the queue without its item at the 0-based index i
Without(list, i) ==
    [n \in 1..(Len(list) - 1) |-> IF n <= i THEN list[n] ELSE list[n + 1]]

\* C6: move_current(reason_key) with a valid cursor, a reason_key of
\* reason_map and the current file on disk (and shutil.move succeeding)
\* moves that file to a name that was free in base/Rejected/<reason
\* folder>, pushes one operation of type reject with the source, the
\* destination, the reason key and the cursor as position, removes the
\* item at the cursor from cv_list and sets current_index to
\* min(cursor, len(queue) - 1), or -1 when the queue became empty.
C6_MoveCurrentEffect ==
    [][ \A k \in DOMAIN reason_map :
          (/\ MoveCurrentWith(k, TRUE)
           /\ HasCurrent
           /\ exists(disk, cv_list[current_index + 1]))
          => LET src == cv_list[current_index + 1]
                 operation == Last(undo_stack')
             IN  /\ undo_stack' # <<>>
                 /\ Len(undo_stack') = Min(Len(undo_stack) + 1, max_undo)
                 /\ operation.type = "reject"
                 /\ operation.src = src
                 /\ operation.reason = k
                 /\ operation.position = current_index
                 /\ operation.dest.dir = <<"cv", "Rejected", reason_map[k]>>
                 /\ ~exists(disk, operation.dest)
                 /\ ~exists(disk', src)
                 /\ exists(disk', operation.dest)
                 /\ FileAt(disk', operation.dest).data = FileAt(disk, src).data
                 /\ cv_list' = Without(cv_list, current_index)
                 /\ current_index' = (IF cv_list' = <<>> THEN -1
                                      ELSE Min(current_index, Len(cv_list') - 1)) ]_vars

\* queue [J.pdf, j.pdf] with the cursor at 0: J.pdf was rejected with key
\* "1", the queue is [j.pdf] and the cursor 0
C6_Witness ==
    /\ out.msg = "Moved" /\ out.kind = "reject"
    /\ cv_list = <<Path(CvFolder, Namej)>>
    /\ current_index = 0
    /\ undo_stack # <<>>
    /\ Last(undo_stack).src = Path(CvFolder, NameJ)
    /\ File(EduDir, NameJ, "cvJ") \in disk

\* ------------------------------------------------------------------ C7
\* the PDFs lying under Rejected/<reason folder>: <<reason key, file name>>
RejectedPdfs(dk) ==
    UNION { { <<k, f.name>> :
                f \in { g \in dk : /\ g.dir = <<"cv", "Rejected", reason_map[k]>>
                                   /\ g.name[Len(g.name)] \in {".pdf", ".PDF"} } } :
            k \in DOMAIN reason_map }

\* C7 as stated: export_csv right after open_folder, with every file of
\* the folder where it was before the application first ran, yields zero
\* rows whatever the folder already contains.
C7_ExportAfterOpenEmpty ==
    (out.msg \in {"NoRejected", "Exported"} /\ out.fresh /\ disk \in InitDisks)
        => out.rows = {}

\* C7, amended: export_csv yields one row per PDF lying under
\* Rejected/<reason folder>, so right after open_folder it yields zero
\* rows provided no PDF lies there already.
C7_ExportAfterOpenAmended ==
    [][ (ExportCsv /\ base_folder # <<>>) =>
          /\ { <<r.ReasonKey, r.Filename>> : r \in out'.rows } = RejectedPdfs(disk)
          /\ (out.msg \in {"Opened", "NoPDFs"} /\ RejectedPdfs(disk) = {})
                => (out'.msg = "NoRejected" /\ out'.rows = {}) ]_vars

\* export right after open_folder found nothing, with a PDF in the hold
\* folder and PDFs in the queue
C7_Witness ==
    /\ out.msg = "NoRejected" /\ out.fresh
    /\ cv_list # <<>>
    /\ \E f \in disk : f.dir = HoldDir(CvFolder)

\* ------------------------------------------------------------------ C8
\* C8: after an import, export_csv reports the imported email for every
\* file rejected in the session whose name stem normalizes to the key of
\* an imported row.
C8_ExportFindsImportedEmail ==
    out.msg = "Exported" =>
        \A r \in out.rows :
            LET key == normalize_name(splitext(r.Filename)[1])
                rejected == \E i \in 1..Len(undo_stack) :
                               /\ undo_stack[i].type = "reject"
                               /\ undo_stack[i].reason = r.ReasonKey
                               /\ undo_stack[i].dest.name = r.Filename
            IN  (rejected /\ key \in DOMAIN cand_email_map)
                    => r.Email = cand_email_map[key]

\* ------------------------------------------------------------------ C9
\* name_k.ext
Suffixed(name, k) ==
    SubSeq(name, 1, Len(name) - 1) \o <<"_">> \o IntToStr(k) \o <<name[Len(name)]>>

TestDirs == { CvFolder, EduDir, HoldDir(CvFolder) }

TestNames == { NameJ, Namej, <<"J", "_", "1", ".pdf">> }

\* C9: unique_dest(directory, name) returns a name that does not exist in
\* the directory: name itself if free, otherwise name_k.ext for the
\* smallest k >= 1 that is free; and a move_current or hold leaves every
\* other file on disk as it was.
C9_UniqueDest ==
    /\ [](\A directory \in TestDirs, name \in TestNames :
            LET u == unique_dest(disk, directory, name)
            IN  /\ ~exists(disk, Path(directory, u))
                /\ ~exists(disk, Path(directory, name)) => u = name
                /\ exists(disk, Path(directory, name)) =>
                     \E k \in 1..(Cardinality(disk) + 1) :
                        /\ u = Suffixed(name, k)
                        /\ \A j \in 1..(k - 1) :
                               exists(disk, Path(directory, Suffixed(name, j))))
    /\ [][ MovedStep =>
             \A f \in disk :
                 (f.dir # cv_list[current_index + 1].dir
                    \/ f.name # cv_list[current_index + 1].name) => f \in disk' ]_vars

\* J.pdf was rejected into a folder that already held a J.pdf: it is there
\* as J_1.pdf and the older file is intact
C9_Witness ==
    /\ File(EduDir, <<"J", "_", "1", ".pdf">>, "cvJ") \in disk
    /\ File(EduDir, NameJ, "old1") \in disk

\* ------------------------------------------------------------------ C10
\* the memory, the files and the snapshot are as they were
NoMutation ==
    UNCHANGED <<cv_list, current_index, undo_stack, disk, state_file, temp_file,
                save_pc>>

\* C10 as stated: move_current with a reason_key not in reason_map, or
\* with the file at the cursor missing on disk, reports an error and
\* changes nothing.
C10_RejectReports ==
    [][ \A k \in ReasonKeys, moved \in BOOLEAN :
          (/\ MoveCurrentWith(k, moved)
           /\ \/ k \notin DOMAIN reason_map
              \/ HasCurrent /\ ~exists(disk, cv_list[current_index + 1]))
          => /\ out'.msg \in {"InvalidReason", "FileMissing"}
             /\ NoMutation ]_vars

\* C10, amended: with a valid cursor, move_current with a reason_key not
\* in reason_map, or with the file at the cursor missing on disk, reports
\* an error and changes nothing; without a valid cursor it changes nothing.
C10_RejectReportsWithCursor ==
    [][ \A k \in ReasonKeys, moved \in BOOLEAN :
          /\ (/\ MoveCurrentWith(k, moved)
              /\ HasCurrent
              /\ \/ k \notin DOMAIN reason_map
                 \/ ~exists(disk, cv_list[current_index + 1]))
             => /\ out'.msg = (IF k \notin DOMAIN reason_map
                               THEN "InvalidReason" ELSE "FileMissing")
                /\ NoMutation
          /\ (MoveCurrentWith(k, moved) /\ ~HasCurrent) => NoMutation ]_vars

\* move_current reported that the file at the cursor is missing, after
\* earlier moves
C10_Witness ==
    /\ out.msg = "FileMissing"
    /\ HasCurrent
    /\ ~exists(disk, cv_list[current_index + 1])
    /\ undo_stack # <<>>
\* ------------------------------------------------------------------ C11
\* is there a file at dir/name on dk, stated on the files themselves
Present(dk, path) == { f \in dk : f.dir = path.dir /\ f.name = path.name } # {}

\* the content of the file at path
Content(dk, path) ==
    { f.data : f \in { g \in dk : g.dir = path.dir /\ g.name = path.name } }

\* an undo step that popped an operation
UndoPops(overwrite, moved) == UndoWith(overwrite, moved) /\ undo_stack # <<>>

\* C11: a successful undo() pops the most recent operation, moves its file
\* back from the recorded destination to the recorded source, reinserts
\* the source path into cv_list at min(position, len(cv_list)), sets
\* current_index to that index and writes the snapshot of the new state;
\* the other entries of the queue keep their relative order.
C11_UndoEffect ==
    [][ \A overwrite \in BOOLEAN :
          (UndoPops(overwrite, TRUE) /\ out'.msg = "Undone")
          => LET operation == Last(undo_stack)
                 index == Min(operation.position, Len(cv_list))
             IN  /\ undo_stack' = SubSeq(undo_stack, 1, Len(undo_stack) - 1)
                 /\ Present(disk, operation.dest)
                 /\ ~Present(disk', operation.dest)
                 /\ Content(disk', operation.src) = Content(disk, operation.dest)
                 /\ Len(cv_list') = Len(cv_list) + 1
                 /\ cv_list'[index + 1] = operation.src
                 /\ Without(cv_list', index) = cv_list
                 /\ current_index' = index
                 /\ temp_file' = Json(json_dump(StateDict(base_folder', cv_list',
                          current_index', undo_stack', cand_email_map')))
                 /\ save_pc' = "written" ]_vars

\* J.pdf was rejected, then j.pdf, and the second one was undone: j.pdf is
\* back in the folder and in the queue, the older operation is still in
\* the ledger
C11_Witness ==
    /\ out.msg = "Undone"
    /\ Len(undo_stack) = 1
    /\ undo_stack[1].src = Path(CvFolder, NameJ)
    /\ cv_list = <<Path(CvFolder, Namej)>>
    /\ current_index = 0
    /\ File(CvFolder, Namej, "cvj") \in disk

\* ------------------------------------------------------------------ C12
\* C12: when undo() pops an operation whose destination file is no longer
\* on disk, it reports that, leaves cv_list, current_index and the files
\* unchanged and does not push the operation again: the ledger is one
\* shorter and the next undo() acts on the next-older entry.
C12_UndoDestMissing ==
    [][ \A overwrite, moved \in BOOLEAN :
          (UndoPops(overwrite, moved) /\ ~Present(disk, Last(undo_stack).dest))
          => /\ out'.msg = "DestMissing"
             /\ undo_stack' = SubSeq(undo_stack, 1, Len(undo_stack) - 1)
             /\ UNCHANGED <<cv_list, current_index, disk>> ]_vars

\* the destination of the last operation was gone; an older operation is
\* still in the ledger
C12_Witness ==
    /\ out.msg = "DestMissing"
    /\ undo_stack # <<>>
    /\ Present(disk, Last(undo_stack).dest)

\* ------------------------------------------------------------------ C13
\* C13: when the source path of the popped operation is occupied by
\* another file and the overwrite is declined, undo() stops with cv_list,
\* current_index and every file on disk unchanged, and the popped
\* operation is not put back into the ledger.
C13_UndoDeclined ==
    [][ \A moved \in BOOLEAN :
          (/\ UndoPops(FALSE, moved)
           /\ Present(disk, Last(undo_stack).dest)
           /\ Present(disk, Last(undo_stack).src))
          => /\ out'.msg = "Declined"
             /\ undo_stack' = SubSeq(undo_stack, 1, Len(undo_stack) - 1)
             /\ UNCHANGED <<cv_list, current_index, disk>> ]_vars

\* the overwrite was declined: the file that appeared at cv/J.pdf and the
\* rejected J.pdf are both where they were
C13_Witness ==
    /\ out.msg = "Declined"
    /\ File(CvFolder, NameJ, "new") \in disk
    /\ \E f \in disk : f.data = "cvJ" /\ f.dir # CvFolder
\* ------------------------------------------------------------------ C14
\* what the last handler showed when it changed cv_list, current_index,
\* undo_stack or cand_email_map
MutatingOutcomes ==
    { "Opened", "NoPDFs", "Moved", "Undone", "ImportComplete",
      "DestMissing", "Declined" }

\* C14: once a folder is open, whenever open_folder, move_current, hold,
\* undo or import_emails has returned having changed cv_list,
\* current_index, undo_stack or cand_email_map, the state file holds the
\* snapshot of the state in memory.
C14_SnapshotAfterMutation ==
    (save_pc = "idle" /\ base_folder # <<>> /\ out.msg \in MutatingOutcomes)
        => state_file = Json(json_dump(StateDict(base_folder, cv_list, current_index,
                                                 undo_stack, cand_email_map)))
\* ------------------------------------------------------------------ C15
\* C15: hold() with a valid cursor and the current file on disk (and
\* shutil.move succeeding) does what move_current does, but the file goes
\* to a free name in base/<hold folder> and the operation pushed is of
\* type hold with no reason key: the item at the cursor leaves cv_list,
\* current_index is clamped and the max_undo eviction applies in the same
\* way.
C15_HoldEffect ==
    [][ (/\ HoldWith(TRUE)
         /\ HasCurrent
         /\ Present(disk, cv_list[current_index + 1]))
        => LET src == cv_list[current_index + 1]
               operation == Last(undo_stack')
           IN  /\ undo_stack' # <<>>
               /\ undo_stack' = (IF Len(undo_stack) = max_undo
                                 THEN Tail(undo_stack) ELSE undo_stack)
                                    \o <<operation>>
               /\ DOMAIN operation = {"src", "dest", "type", "filename", "position"}
               /\ operation.type = "hold"
               /\ operation.src = src
               /\ operation.filename = src.name
               /\ operation.position = current_index
               /\ operation.dest.dir = <<"cv", "HoldForReview">>
               /\ ~Present(disk, operation.dest)
               /\ ~Present(disk', src)
               /\ Content(disk', operation.dest) = Content(disk, src)
               /\ \A f \in disk : (f.dir # src.dir \/ f.name # src.name) => f \in disk'
               /\ cv_list' = Without(cv_list, current_index)
               /\ current_index' = (IF cv_list' = <<>> THEN -1
                                    ELSE Min(current_index, Len(cv_list') - 1))
               /\ temp_file' = Json(json_dump(StateDict(base_folder', cv_list',
                        current_index', undo_stack', cand_email_map'))) ]_vars

\* j.pdf was held after J.pdf had been rejected, and the ledger, being
\* full, dropped the older operation
C15_Witness ==
    /\ out.msg = "Moved" /\ out.kind = "hold" /\ out.evicted
    /\ cv_list = <<>>
    /\ current_index = -1
    /\ Last(undo_stack).type = "hold"
    /\ File(HoldDir(CvFolder), Namej, "cvj") \in disk
\* ------------------------------------------------------------------ C16
\* the snapshot of the state the step leads to was written
SnapshotWritten ==
    temp_file' = Json(json_dump(StateDict(base_folder', cv_list', current_index',
                                          undo_stack', cand_email_map')))

\* C16: open_folder(path) makes cv_list the sorted listing of the PDFs
\* directly in path, current_index 0 if there is one and -1 otherwise,
\* undo_stack empty, and writes the snapshot; an undo() right after it has
\* nothing to undo, whatever was done before.
C16_OpenFolderResets ==
    /\ [][ OpenFolder =>
             /\ base_folder' = <<"cv">>
             /\ { cv_list'[i] : i \in 1..Len(cv_list') }
                  = { [dir |-> f.dir, name |-> f.name] :
                        f \in { g \in disk : /\ g.dir = <<"cv">>
                                             /\ g.name[Len(g.name)] = ".pdf" } }
             /\ \A i \in 1..(Len(cv_list') - 1) :
                    StrLess(cv_list'[i].name, cv_list'[i + 1].name)
             /\ current_index' = (IF cv_list' = <<>> THEN -1 ELSE 0)
             /\ undo_stack' = <<>>
             /\ SnapshotWritten
             /\ disk' = disk ]_vars
    /\ [][ (out.msg \in {"Opened", "NoPDFs"} /\ Undo) =>
             /\ out'.msg = "NothingToUndo"
             /\ UNCHANGED <<cv_list, current_index, undo_stack, disk>> ]_vars

\* the folder was opened again after J.pdf had been rejected: the queue is
\* [j.pdf], the ledger is empty and the snapshot on disk says so
C16_Witness ==
    /\ out.msg = "Opened"
    /\ save_pc = "idle"
    /\ cv_list = <<Path(CvFolder, Namej)>>
    /\ current_index = 0
    /\ undo_stack = <<>>
    /\ \E f \in disk : f.data = "cvJ" /\ f.dir # CvFolder
    /\ state_file = Json(json_dump(StateDict(base_folder, cv_list, current_index,
                                             undo_stack, cand_email_map)))
\* ------------------------------------------------------------------ C17
\* the rows of csv (by index) that satisfy the test Stored on their name
\* and their email
RowsWhere(csv, Stored(_, _)) ==
    { i \in 1..Len(csv.rows) : Stored(csv.rows[i].name, csv.rows[i].email) }

\* name and email are both non-empty after trimming
TrimmedNonEmpty(name, email) == strip(name) # <<>> /\ strip(email) # <<>>

\* the normalized name and the trimmed email are both non-empty
KeyedNonEmpty(name, email) == normalize_name(name) # <<>> /\ strip(email) # <<>>

\* the map m after the rows written of csv, in file order, are stored
\* under their normalized names
AfterRows(m, csv, written) ==
    LET keys == { normalize_name(csv.rows[i].name) : i \in written }
        last(key) == CHOOSE i \in written :
                        /\ normalize_name(csv.rows[i].name) = key
                        /\ \A j \in written :
                              normalize_name(csv.rows[j].name) = key => j <= i
    IN  [key \in DOMAIN m \cup keys |->
            IF key \in keys THEN strip(csv.rows[last(key)].email) ELSE m[key]]

\* an import that went through with the rows written
ImportStores(csv, written) ==
    /\ cand_email_map' = AfterRows(cand_email_map, csv, written)
    /\ email_map' = AfterRows(email_map, csv, written)
    /\ config_file' = email_map'
    /\ out'.msg = "ImportComplete"
    /\ out'.count = Cardinality(written)

\* an import step that read a file with both headers
ImportReads(csv) ==
    /\ ImportEmailsWith(csv)
    /\ base_folder # <<>>
    /\ {"name", "email"} \subseteq csv.fieldnames

\* C17 as stated: the import stores normalized(name) -> email, in both
\* tiers, for every row whose name and email are both non-empty after
\* trimming, the last row winning on a key collision, and returns the
\* number of these rows.
C17_ImportStoresTrimmed ==
    [][ \A csv \in CsvFiles :
          ImportReads(csv) => ImportStores(csv, RowsWhere(csv, TrimmedNonEmpty)) ]_vars

\* C17, amended: the import stores normalized(name) -> email, in both
\* tiers and in the configuration file, for every row whose normalized
\* name and trimmed email are both non-empty, in file order (the last row
\* wins on a key collision), and returns the number of these rows; the
\* other rows write nothing and are not counted.
C17_ImportStoresKeyed ==
    [][ \A csv \in CsvFiles :
          ImportReads(csv) =>
             /\ ImportStores(csv, RowsWhere(csv, KeyedNonEmpty))
             /\ <<>> \notin DOMAIN cand_email_map'
             /\ SnapshotWritten ]_vars

\* the four rows were imported: two were written, both under the key "j",
\* and the email of the later one is stored in both tiers and on disk
C17_Witness ==
    /\ out.msg = "ImportComplete"
    /\ out.count = 2
    /\ cand_email_map = [key \in {<<"j">>} |-> <<"x">>]
    /\ email_map = cand_email_map
    /\ config_file = cand_email_map

\* ------------------------------------------------------------------ C18
\* C18: when the CSV lacks the name header or the email header, the import
\* fails and imports nothing: cand_email_map, config['email_map'], the
\* configuration file and the session snapshot are unchanged.
C18_ImportNeedsHeaders ==
    [][ \A csv \in CsvFiles :
          (/\ ImportEmailsWith(csv)
           /\ base_folder # <<>>
           /\ ("name" \notin csv.fieldnames \/ "email" \notin csv.fieldnames))
          => /\ out'.msg = "InvalidFormat"
             /\ UNCHANGED <<cand_email_map, email_map, config_file,
                            state_file, temp_file, save_pc>> ]_vars

\* an import failed on the headers after an earlier import had gone
\* through: the emails of the earlier one are all still there
C18_Witness ==
    /\ out.msg = "InvalidFormat"
    /\ cand_email_map # EmptyMap
    /\ email_map = cand_email_map
    /\ config_file = cand_email_map
    /\ save_pc = "idle"
\* ------------------------------------------------------------------ C19
\* the email stored for the file name stem, the session tier first
StoredEmail(stem) ==
    IF stem \in DOMAIN cand_email_map THEN cand_email_map[stem]
    ELSE IF stem \in DOMAIN email_map THEN email_map[stem]
    ELSE <<>>

\* one row per PDF lying under Rejected/<the folder of reason key k>
RowsOfReason(k) ==
    { [Filename |-> f.name, ReasonKey |-> k, ReasonText |-> reason_map[k],
       Email |-> StoredEmail(SubSeq(f.name, 1, Len(f.name) - 1))] :
        f \in { g \in disk : /\ g.dir = <<"cv", "Rejected", reason_map[k]>>
                             /\ g.name[Len(g.name)] \in {".pdf", ".PDF"} } }

\* C19: export_csv produces exactly one row per PDF found on disk under
\* base/Rejected/<reason folder>, for every reason folder of reason_map,
\* with the file name, the reason key and folder it lies under and the
\* email looked up for its stem; held files and files still in the queue
\* give no row, the result is empty when nothing lies there, and
\* export_csv changes no state.
C19_ExportRows ==
    [][ (ExportCsv /\ base_folder # <<>>) =>
          /\ out'.rows = UNION { RowsOfReason(k) : k \in {"1", "2"} }
          /\ out'.msg = (IF out'.rows = {} THEN "NoRejected" ELSE "Exported")
          /\ Cardinality(out'.rows)
                = Cardinality({ f \in disk : /\ Len(f.dir) = 3
                                             /\ f.dir[2] = "Rejected"
                                             /\ f.name[Len(f.name)] = ".pdf" })
          /\ UNCHANGED <<mem, cfg, files>> ]_vars

\* two rejected PDFs were exported, one of them with the email found in
\* the persistent tier only (the session tier is empty after a restart)
C19_Witness ==
    /\ out.msg = "Exported"
    /\ Cardinality(out.rows) = 2
    /\ \E r \in out.rows : r.Email # <<>>
    /\ cand_email_map = EmptyMap
\* ------------------------------------------------------------------ C20
\* C20: undo() with an empty undo_stack reports that there is nothing to
\* undo and changes nothing: cv_list, current_index, undo_stack, the files
\* on disk and the persisted snapshot stay as they were.
C20_UndoEmpty ==
    [][ \A overwrite, moved \in BOOLEAN :
          (UndoWith(overwrite, moved) /\ undo_stack = <<>>)
          => /\ out'.msg = "NothingToUndo"
             /\ UNCHANGED <<base_folder, cv_list, current_index, undo_stack,
                            cand_email_map, disk, state_file, temp_file, save_pc>> ]_vars

\* undo was called with nothing in the ledger: the queue of two files and
\* its snapshot on disk are as open_folder left them
C20_Witness ==
    /\ out.msg = "NothingToUndo"
    /\ undo_stack = <<>>
    /\ Len(cv_list) = 2
    /\ state_file = Json(json_dump(StateDict(base_folder, cv_list, current_index,
                                             undo_stack, cand_email_map)))
    /\ clean
\* ------------------------------------------------------------------ C21
\* the application has just been started: __init__ has run and no handler
\* has
JustStarted == out.msg \in {"Ready", "SessionRestored"} /\ save_pc = "idle"

\* the state file holds a snapshot with all its fields
WholeSnapshot(file) ==
    /\ file.kind = "json"
    /\ file.value.t = "object"
    /\ {"base_folder", "cv_list", "current_index", "undo_stack", "cand_email_map"}
          \subseteq DOMAIN file.value.v

\* C21: when the state file found at startup is absent, is not JSON or is
\* not a well-formed snapshot, the application starts fresh: no base
\* folder, an empty cv_list, current_index -1, an empty undo_stack, and no
\* field restored from the file.
C21_StartsFresh ==
    (JustStarted /\ ~WholeSnapshot(state_file))
        => /\ base_folder = <<>>
           /\ cv_list = <<>>
           /\ current_index = -1
           /\ undo_stack = <<>>
           /\ cand_email_map = EmptyMap
\* ------------------------------------------------------------------ C22
\* a step of the application itself (no event of the environment)
OwnStep == faults' = faults

\* the file f lies in a subfolder of the opened folder (Rejected/<reason>
\* or the hold folder)
InSubfolder(f) == Len(f.dir) > 1

\* C22: per CV the only transitions are pending -> rejected/held, by a
\* move_current/hold on the item at the cursor, and rejected/held ->
\* pending, by a successful undo of its own operation: a move or hold
\* removes only the item at the cursor, the other pending items stay in
\* cv_list in their order with their files untouched, and a file in a
\* subfolder stays there until the operation that put it there is undone.
C22_ItemTransitions ==
    /\ [][ MovedStep =>
             /\ cv_list' = Without(cv_list, current_index)
             /\ Last(undo_stack').src = cv_list[current_index + 1]
             /\ \A i \in 1..Len(cv_list) :
                    i # current_index + 1 =>
                        Content(disk', cv_list[i]) = Content(disk, cv_list[i]) ]_vars
    /\ [][ (OwnStep /\ ~OpenFolder /\ cv_list' # cv_list) =>
             \/ MovedStep
             \/ /\ out'.msg = "Undone"
                /\ undo_stack # <<>>
                /\ cv_list'[current_index' + 1] = Last(undo_stack).src
                /\ Without(cv_list', current_index') = cv_list
                /\ Content(disk', Last(undo_stack).src)
                     = Content(disk, Last(undo_stack).dest) ]_vars
    /\ [][ OwnStep =>
             \A f \in disk :
                 (InSubfolder(f) /\ f \notin disk') =>
                     /\ out'.msg = "Undone"
                     /\ undo_stack # <<>>
                     /\ Last(undo_stack).dest = [dir |-> f.dir, name |-> f.name] ]_vars

\* J.pdf was held, j.pdf was rejected and the rejection was undone: j.pdf
\* is pending again while J.pdf is still in the hold folder with its
\* operation in the ledger
C22_Witness ==
    /\ out.msg = "Undone"
    /\ Len(undo_stack) = 1
    /\ undo_stack[1].type = "hold"
    /\ File(HoldDir(CvFolder), NameJ, "cvJ") \in disk
    /\ cv_list = <<Path(CvFolder, Namej)>>
    /\ File(CvFolder, Namej, "cvj") \in disk
\* ------------------------------------------------------------------ C23
\* C23: when shutil.move fails inside move_current or hold, the failure is
\* reported and the memory is unchanged: no operation is pushed, the item
\* stays in cv_list at the cursor, current_index is unchanged and the
\* application takes further operations; an operation enters the ledger
\* only with its file moved.
C23_MoveFailure ==
    /\ [][ \A k \in DOMAIN reason_map :
             (/\ MoveCurrentWith(k, FALSE) \/ HoldWith(FALSE)
              /\ HasCurrent
              /\ Present(disk, cv_list[current_index + 1]))
             => /\ out'.msg = "MoveFailed"
                /\ save_pc' = "idle"
                /\ UNCHANGED <<base_folder, cv_list, current_index, undo_stack,
                               cand_email_map, disk, state_file, temp_file>> ]_vars
    /\ [][ (/\ OwnStep
            /\ undo_stack' # undo_stack
            /\ Len(undo_stack') >= Len(undo_stack))
           => /\ out'.msg = "Moved"
              /\ Last(undo_stack').src = cv_list[current_index + 1]
              /\ ~Present(disk', Last(undo_stack').src)
              /\ Content(disk', Last(undo_stack').dest)
                   = Content(disk, Last(undo_stack').src) ]_vars

\* a move failed after an earlier one had gone through: the item is still
\* at the cursor with its file in place, and the ledger holds the earlier
\* operation only
C23_Witness ==
    /\ out.msg = "MoveFailed"
    /\ HasCurrent
    /\ Present(disk, cv_list[current_index + 1])
    /\ Len(undo_stack) = 1
    /\ Last(undo_stack).src # cv_list[current_index + 1]
    /\ save_pc = "idle"
\* ------------------------------------------------------------------ C24
\* the number of files on the disk dk with the content data
Copies(dk, data) == Cardinality({ f \in dk : f.data = data })

InQueue(path) == \E i \in 1..Len(cv_list) : cv_list[i] = path

\* C24: without outside changes to the files, after any sequence of
\* open_folder, move_current, hold and undo every path of cv_list exists
\* on disk, every operation of the ledger has its destination on disk and
\* its source neither on disk nor in cv_list, and no step loses or
\* duplicates a file.
C24_ModelMatchesDisk ==
    /\ [](faults = 0 =>
            /\ \A i \in 1..Len(cv_list) : Present(disk, cv_list[i])
            /\ NoDuplicates(cv_list)
            /\ \A i \in 1..Len(undo_stack) :
                 /\ Present(disk, undo_stack[i].dest)
                 /\ ~Present(disk, undo_stack[i].src)
                 /\ ~InQueue(undo_stack[i].src))
    /\ [][ (faults' = 0)
           => /\ Cardinality(disk') = Cardinality(disk)
              /\ \A f \in disk \cup disk' :
                   Copies(disk', f.data) = Copies(disk, f.data) ]_vars

\* with no outside change, two items were moved and one came back: one
\* operation is left in the ledger and the queue holds the other file
C24_Witness ==
    /\ faults = 0
    /\ out.msg = "Undone"
    /\ Len(undo_stack) = 1
    /\ Len(cv_list) = 1
    /\ Present(disk, undo_stack[1].dest)
    /\ undo_stack[1].dest.name # undo_stack[1].src.name
\* ------------------------------------------------------------------ C25
\* C25: in every state reached from open_folder through move_current,
\* hold and undo current_index is 0 or -1 and every recorded operation
\* has position 0: the application acts on the head of the queue, and an
\* undone item comes back at the front of the queue.
C25_HeadOfQueue ==
    /\ [](/\ current_index \in {0, -1}
          /\ current_index = 0 => cv_list # <<>>
          /\ \A i \in 1..Len(undo_stack) : undo_stack[i].position = 0)
    /\ [][ MovedStep => /\ current_index = 0
                        /\ Last(undo_stack').src = cv_list[1]
                        /\ cv_list' = Tail(cv_list) ]_vars
    /\ [][ (OwnStep /\ out'.msg = "Undone" /\ undo_stack' # undo_stack)
           => /\ current_index' = 0
              /\ cv_list' = <<Last(undo_stack).src>> \o cv_list ]_vars

\* both items were moved from the head of the queue and the second came
\* back: it is at the front, under the cursor, and the operation left in
\* the ledger was recorded at position 0
C25_Witness ==
    /\ out.msg = "Undone"
    /\ cv_list = <<Path(CvFolder, Namej)>>
    /\ current_index = 0
    /\ Len(undo_stack) = 1
    /\ undo_stack[1].src = Path(CvFolder, NameJ)
    /\ undo_stack[1].position = 0
    /\ undo_stack[1].type = "reject"

====
